---- MODULE Spec2Model ----
(***************************************************************************)
(* uiautomatorstartall.cpp: a supervisor loop that polls a table of device *)
(* records and launches, for every record whose flag reads idle, a         *)
(* background thread (systemthread) that runs two external adb commands.   *)
(*                                                                         *)
(* Strings are sequences of one-character strings.  The main thread and    *)
(* every launched thread take one step per shared-memory access or         *)
(* external event, so that every interleaving of the real threads is a     *)
(* behaviour of the model.                                                 *)
(***************************************************************************)
EXTENDS Integers, Sequences, FiniteSets, TLC

\* ------------------------------------------------------------------ bounds
\* Longest enumerated device-list string (argv[3]).
MaxLen == 4
\* Largest number of thread handles the model lets allthreads hold: main
\* does not launch past it.
MaxThreads == 2

\* Largest of the small sleep times tried one by one.
MaxInterval == 20

\* --------------------------------------------------------------- constants
\* main: if (argc < 4)
MinArgc == 4
\* The sleep time of the usage text's example, in milliseconds.
ExampleInterval == 5000
\* INT_MAX, the largest value of sleepcp's int milliseconds.
IntMax == 2147483647

\* The characters device-list strings are built from.
Alphabet == {"/", " ", "\t", "a", "b"}

\* All strings over Alphabet of length at most n.
StringsUpTo(n) == UNION {[1..k -> Alphabet] : k \in 0..n}

\* ------------------------------------------------------------------ parser
\* std::isspace in the "C" locale (the vertical tab, which it also takes,
\* has no string here).
isspace(ch) == ch \in {" ", "\t", "\n", "\r", "\f"}

\* std::find_if(s.begin(), s.end(), !isspace): the position of the first
\* character from position i on that is no whitespace, Len(s) + 1 for end().
RECURSIVE find_if_not_space(_, _)
find_if_not_space(s, i) ==
    IF i > Len(s) THEN Len(s) + 1
    ELSE IF ~isspace(s[i]) THEN i
    ELSE find_if_not_space(s, i + 1)

\* The reverse scan with the reverse iterator's own position taken for the
\* forward one (no step from base()): the last kept character is erased too.
RECURSIVE rfind_if_not_space_nobase(_, _)
rfind_if_not_space_nobase(s, i) ==
    IF i < 1 THEN 1
    ELSE IF ~isspace(s[i]) THEN i
    ELSE rfind_if_not_space_nobase(s, i - 1)

\* std::find_if(s.rbegin(), s.rend(), !isspace).base(): the scan runs from the
\* last character down; base() of a reverse iterator at character i is the
\* forward position i + 1, and rend().base() is begin(), position 1.
RECURSIVE rfind_if_not_space_base(_, _)
rfind_if_not_space_base(s, i) ==
    IF i < 1 THEN 1
    ELSE IF ~isspace(s[i]) THEN i + 1
    ELSE rfind_if_not_space_base(s, i - 1)

\* s.erase(first, last): s without the positions first .. last - 1.
erase(s, first, last) == SubSeq(s, 1, first - 1) \o SubSeq(s, last, Len(s))

lstrip_spaces_inplace(s) ==
    IF Len(s) = 0 THEN s
    ELSE erase(s, 1, find_if_not_space(s, 1))

rstrip_spaces_inplace(s) ==
    IF Len(s) = 0 THEN s
    ELSE erase(s, rfind_if_not_space_base(s, Len(s)), Len(s) + 1)

strip_spaces_inplace(s) ==
    IF Len(s) = 0 THEN s
    ELSE rstrip_spaces_inplace(lstrip_spaces_inplace(s))

\* std::ranges::find(cur, end, '/'): position of the next delimiter from cur
\* on, Len(s) + 1 when there is none.
RECURSIVE find_delim(_, _)
find_delim(s, cur) ==
    IF cur > Len(s) THEN Len(s) + 1
    ELSE IF s[cur] = "/" THEN cur
    ELSE find_delim(s, cur + 1)

\* The segments std::views::split('/') yields from position cur on.  A
\* delimiter at the very end is followed by one more, empty, segment.
RECURSIVE split_from(_, _)
split_from(s, cur) ==
    LET next == find_delim(s, cur)
    IN  IF next > Len(s) THEN <<SubSeq(s, cur, Len(s))>>
        ELSE <<SubSeq(s, cur, next - 1)>> \o split_from(s, next + 1)

\* adb_devices_output | std::views::split('/'); an empty range has no segment.
split(s) == IF Len(s) = 0 THEN <<>> ELSE split_from(s, 1)

\* A record made with its flag busy.
DeviceInfoBusy(s) == [name |-> s, done |-> FALSE]

\* DeviceInfo{s, std::make_unique<std::atomic<bool>>(true)}
DeviceInfo(s) == [name |-> s, done |-> TRUE]

\* The loop with a segment left out when a record of its name is already in
\* results: one record per distinct name.
RECURSIVE get_devices_loop_unique(_, _, _)
get_devices_loop_unique(strs, k, results) ==
    IF k > Len(strs) THEN results
    ELSE LET s == strip_spaces_inplace(strs[k])
             seen == \E j \in 1..Len(results) : results[j].name = s
         IN  get_devices_loop_unique(strs, k + 1,
                 IF Len(s) > 0 /\ ~seen
                 THEN Append(results, DeviceInfo(s)) ELSE results)

\* The body of get_devices' loop over the segments strs[k .. ], appending to
\* results.
RECURSIVE get_devices_loop(_, _, _)
get_devices_loop(strs, k, results) ==
    IF k > Len(strs) THEN results
    ELSE LET s == strip_spaces_inplace(strs[k])
         IN  get_devices_loop(strs, k + 1,
                 IF Len(s) > 0 THEN Append(results, DeviceInfo(s)) ELSE results)

get_devices(adb_devices_output) ==
    get_devices_loop(split(adb_devices_output), 1, <<>>)

\* ----------------------------------------------------------------- sleepcp
\* Numbers past 32 bits are kept as three 16-bit digits, the most
\* significant first: <<x, y, z>> is x * 2^32 + y * 2^16 + z.
Word == 2^16

\* milliseconds * 1000 as a number, for 0 <= milliseconds <= INT_MAX.
times1000(milliseconds) ==
    LET p0 == (milliseconds % Word) * 1000
        p1 == (milliseconds \div Word) * 1000 + p0 \div Word
    IN  <<p1 \div Word, p1 % Word, p0 % Word>>

\* The number is a value of int: at most INT_MAX.
FitsInt(x) ==
    /\ x[1] = 0
    /\ \/ x[2] < IntMax \div Word
       \/ x[2] = IntMax \div Word /\ x[3] <= IntMax % Word

\* The conversion to usleep's useconds_t, a 32-bit unsigned: modulo 2^32.
to_useconds(x) == <<0, x[2], x[3]>>

\* Line 63: usleep(milliseconds * 1000), the multiplication made in int.
\* What comes of it: the call of usleep with the product when the product
\* is a value of int; when it is not, the multiplication overflows and its
\* behaviour is undefined: the build either goes on with the low 32 bits of
\* the product or traps.
sleepcp(milliseconds) ==
    LET p == times1000(milliseconds)
    IN  IF FitsInt(p)
        THEN {[kind |-> "usleep", arg |-> to_useconds(p)]}
        ELSE {[kind |-> "usleep", arg |-> to_useconds(p)],
              [kind |-> "trap", arg |-> <<0, 0, 0>>]}

\* No call of sleepcp yet.
NoCall == [kind |-> "none", arg |-> <<0, 0, 0>>]

\* ------------------------------------------------------------------- state
VARIABLES
    argc,        \* main's argument count
    argv3,       \* argv[3], the device list (<<>> when argc < 4)
    mainpc,      \* where the main thread is
    devices,     \* main's std::vector<DeviceInfo>
    d,           \* the position of the range-for over devices
    cout,        \* the last device line written to std::cout, <<>> before
    allthreads,  \* main's std::vector<std::thread>, one record per thread
    sleep_time,  \* main's int sleep_time, what atoi(argv[2]) gives it
    usec         \* what the last call of sleepcp asked of usleep

vars == <<argc, argv3, mainpc, devices, d, cout, allthreads, sleep_time, usec>>

\* What a thread has done so far (log) is kept beside its position so that
\* the order of its effects can be read off the state.
NewThread(i) ==
    [dev |-> i, pc |-> "entry", log |-> <<>>, rc1 |-> "none", rc2 |-> "none"]

\* What system() can return: the command's exit status, kept as ok / failed.
ExitStatus == {"ok", "failed"}

\* The argument counts the program is started with: too few, exactly the
\* three arguments, and one more (arguments past argv[3] are never read).
ArgcValues == 1..(MinArgc + 1)

\* Device lists the threaded specifications start from: no record, one
\* record, two records of different names, two records of the same name.
DeviceLists ==
    { <<"/">>, <<"a">>, <<"a", "/", " ", "b">>, <<"a", "/", "a">> }

\* The sleep time started with: the example's.  With fewer than three
\* arguments line 137 is not reached and sleep_time is never read.
SleepTimesFor(n) == IF n < MinArgc THEN {0} ELSE {ExampleInterval}

\* The device lists tried with argument count n.
DeviceListsFor(n) ==
    IF n < MinArgc THEN {<<>>}
    ELSE IF n = MinArgc THEN DeviceLists
    ELSE {<<"a">>}

TypeOK ==
    /\ argc \in ArgcValues
    /\ mainpc \in {"start", "exit_failure", "scan", "print", "test", "sleep",
                  "abort"}
    /\ d \in 1..(Len(devices) + 1)
    /\ Len(allthreads) <= MaxThreads

Init ==
    /\ argc \in ArgcValues
    /\ argv3 \in DeviceListsFor(argc)
    /\ mainpc = "start"
    /\ devices = <<>>
    /\ d = 1
    /\ cout = <<>>
    /\ allthreads = <<>>
    /\ sleep_time \in SleepTimesFor(argc)
    /\ usec = NoCall

\* -------------------------------------------------------------------- main
\* The range-for ending one record early: the last record is not visited.
AfterRecordSkip(i, n) == IF i + 1 < n THEN "print" ELSE "sleep"

\* Where the range-for goes after the record at position i: the next record,
\* or the sleep after the last one.
AfterRecord(i, n) == IF i < n THEN "print" ELSE "sleep"

\* The usage check one argument short: a start without argv[3] passes it.
UsageErrorShort(n) == n < MinArgc - 1

\* main: if (argc < 4)
UsageError(n) == n < MinArgc

\* Lines 130-142: the usage check, then the device table is built.
MainStart ==
    /\ mainpc = "start"
    /\ IF UsageError(argc)
       THEN /\ mainpc' = "exit_failure"
            /\ UNCHANGED devices
       ELSE /\ devices' = get_devices(argv3)
            /\ mainpc' = "scan"
    /\ UNCHANGED <<argc, argv3, sleep_time, usec, d, cout, allthreads>>

\* A pass of while (1) that leaves the loop when there is no record.
MainScanStopsEmpty ==
    /\ mainpc = "scan"
    /\ mainpc' = IF Len(devices) = 0 THEN "exit_failure" ELSE "print"
    /\ d' = 1
    /\ UNCHANGED <<argc, argv3, sleep_time, usec, devices, cout, allthreads>>

\* Lines 143-145: a pass of while (1) begins the range-for over devices.
MainScan ==
    /\ mainpc = "scan"
    /\ mainpc' = IF Len(devices) = 0 THEN "sleep" ELSE "print"
    /\ d' = 1
    /\ UNCHANGED <<argc, argv3, sleep_time, usec, devices, cout, allthreads>>

\* Lines 147-148: the name and a first load of the flag go to std::cout.
MainPrint ==
    /\ mainpc = "print"
    /\ cout' = <<devices[d].name, devices[d].done>>
    /\ mainpc' = "test"
    /\ UNCHANGED <<argc, argv3, sleep_time, usec, devices, d, allthreads>>

\* The launch with the thread bound to the table's first record whatever
\* record the loop is at.
emplace_back_first(threads, i) == Append(threads, NewThread(1))

\* The launch with the handles of the returned threads dropped first, as
\* after a join.
emplace_back_reaped(threads, i) ==
    Append(SelectSeq(threads, LAMBDA t : t.pc # "finished"), NewThread(i))

\* std::thread{systemthread, std::ref(d)} appended to allthreads.
emplace_back(threads, i) == Append(threads, NewThread(i))

\* Lines 149-152: a second load of the flag decides the launch; the loop
\* then moves to the next record without waiting for the thread.
MainTest ==
    /\ mainpc = "test"
    /\ IF devices[d].done
       THEN /\ Len(allthreads) < MaxThreads
            /\ allthreads' = emplace_back(allthreads, d)
       ELSE UNCHANGED allthreads
    /\ mainpc' = AfterRecord(d, Len(devices))
    /\ d' = IF d < Len(devices) THEN d + 1 ELSE 1
    /\ UNCHANGED <<argc, argv3, sleep_time, usec, devices, cout>>

\* The sleep with a join before it: main goes round only once every
\* launched thread has returned.
MainSleepJoin ==
    /\ mainpc = "sleep"
    /\ \A w \in 1..Len(allthreads) : allthreads[w].pc = "finished"
    /\ \E r \in sleepcp(sleep_time) :
          /\ usec' = r
          /\ mainpc' = IF r.kind = "trap" THEN "abort" ELSE "scan"
    /\ UNCHANGED <<argc, argv3, sleep_time, devices, d, cout, allthreads>>

\* Line 154: sleepcp(sleep_time) asks usleep for its suspension and
\* returns, and while (1) goes round; a trap ends the program.
MainSleep ==
    /\ mainpc = "sleep"
    /\ \E r \in sleepcp(sleep_time) :
          /\ usec' = r
          /\ mainpc' = IF r.kind = "trap" THEN "abort" ELSE "scan"
    /\ UNCHANGED <<argc, argv3, sleep_time, devices, d, cout, allthreads>>

Main == MainStart \/ MainScan \/ MainPrint \/ MainTest \/ MainSleep

\* ------------------------------------------------------------ systemthread
\* The value systemthread stores at line 100.
EntryValue == FALSE

\* The exit store with the entry's value: the flag is never idle again.
ExitValueBusy == FALSE

\* The value systemthread stores at line 107.
ExitValue == TRUE

\* The store made through the name instead of the record: it reaches every
\* record of that name.
StoreDoneByName(w, v) ==
    devices' = [i \in 1..Len(devices) |->
                   IF devices[i].name = devices[allthreads[w].dev].name
                   THEN [devices[i] EXCEPT !.done = v]
                   ELSE devices[i]]

\* *(stru.done) = v for the record thread w is bound to.
StoreDone(w, v) ==
    devices' = [devices EXCEPT ![allthreads[w].dev].done = v]

\* The connect command with the name of the table's first record whatever
\* record the thread is bound to.
connect_cmd_first(stru) == <<"connect", devices[1].name>>

\* Line 101: adb_exe + " connect " + stru.name, kept as verb and device.
connect_cmd(stru) == <<"connect", stru.name>>

\* Lines 102-104: adb_exe + " -s " + stru.name + " shell am instrument ...",
\* kept as verb and device.
run_server(stru) == <<"instrument", stru.name>>

\* Line 100.
Entry(w) ==
    /\ allthreads[w].pc = "entry"
    /\ StoreDone(w, EntryValue)
    /\ allthreads' = [allthreads EXCEPT ![w].pc = "connect",
                                        ![w].log = Append(@, "busy")]
    /\ UNCHANGED <<argc, argv3, sleep_time, usec, mainpc, d, cout>>

\* Line 105, the call: the connect command starts.
ConnectStart(w) ==
    /\ allthreads[w].pc = "connect"
    /\ allthreads' = [allthreads EXCEPT ![w].pc = "connecting",
                                        ![w].log = Append(@, "connect")]
    /\ UNCHANGED <<argc, argv3, sleep_time, usec, mainpc, devices, d, cout>>

\* A thread that issues the connect command again when it failed.
AfterConnectRetry(rc) == IF rc = "failed" THEN "connect" ELSE "run"

\* Where a thread goes when system(connect_cmd) has returned rc.
AfterConnect(rc) == "run"

\* Line 105, the return: system() returns the status, which is dropped.
ConnectReturn(w) ==
    /\ allthreads[w].pc = "connecting"
    /\ \E rc \in ExitStatus :
          allthreads' = [allthreads EXCEPT ![w].pc = AfterConnect(rc),
                                           ![w].rc1 = rc]
    /\ UNCHANGED <<argc, argv3, sleep_time, usec, mainpc, devices, d, cout>>

\* Line 106, the call: the instrumentation command starts.
RunStart(w) ==
    /\ allthreads[w].pc = "run"
    /\ allthreads' = [allthreads EXCEPT ![w].pc = "running",
                                        ![w].log = Append(@, "run")]
    /\ UNCHANGED <<argc, argv3, sleep_time, usec, mainpc, devices, d, cout>>

\* Line 106, the return.
RunReturn(w) ==
    /\ allthreads[w].pc = "running"
    /\ \E rc \in ExitStatus :
          allthreads' = [allthreads EXCEPT ![w].pc = "exit", ![w].rc2 = rc]
    /\ UNCHANGED <<argc, argv3, sleep_time, usec, mainpc, devices, d, cout>>

\* The exit store made only when both commands succeeded.
ExitOnlyIfOk(w) ==
    /\ allthreads[w].pc = "exit"
    /\ IF allthreads[w].rc1 = "ok" /\ allthreads[w].rc2 = "ok"
       THEN StoreDone(w, ExitValue)
       ELSE UNCHANGED devices
    /\ allthreads' = [allthreads EXCEPT ![w].pc = "finished",
                                        ![w].log = Append(@, "idle")]
    /\ UNCHANGED <<argc, argv3, sleep_time, usec, mainpc, d, cout>>

\* Line 107, after which the thread function returns.
Exit(w) ==
    /\ allthreads[w].pc = "exit"
    /\ StoreDone(w, ExitValue)
    /\ allthreads' = [allthreads EXCEPT ![w].pc = "finished",
                                        ![w].log = Append(@, "idle")]
    /\ UNCHANGED <<argc, argv3, sleep_time, usec, mainpc, d, cout>>

systemthread(w) ==
    \/ Entry(w)
    \/ ConnectStart(w)
    \/ ConnectReturn(w)
    \/ RunStart(w)
    \/ RunReturn(w)
    \/ Exit(w)

\* The threads launched so far.
Tids == 1..Len(allthreads)

Next ==
    \/ MainStart
    \/ MainScan
    \/ MainPrint
    \/ MainTest
    \/ MainSleep
    \/ \E w \in Tids : Entry(w)
    \/ \E w \in Tids : ConnectStart(w)
    \/ \E w \in Tids : ConnectReturn(w)
    \/ \E w \in Tids : RunStart(w)
    \/ \E w \in Tids : RunReturn(w)
    \/ \E w \in Tids : Exit(w)

Spec == Init /\ [][Next]_vars

\* The steps of thread w, none before it is launched.
Thread(w) == w \in Tids /\ systemthread(w)

\* The main thread is scheduled again and again; nothing is assumed of the
\* launched threads, which may stay in an external command for ever.
SupSpec == Init /\ [][Next]_vars /\ WF_vars(Main)

\* The starts of the fair specification: three arguments, and a device
\* list of one record or of two.
LiveInit ==
    /\ Init
    /\ argc = MinArgc
    /\ argv3 \in {<<"a">>, <<"a", "/", "a">>}

\* Every thread is scheduled again and again and every external command
\* returns.
LiveSpec ==
    /\ LiveInit
    /\ [][Next]_vars
    /\ WF_vars(Main)
    /\ \A w \in 1..MaxThreads : WF_vars(Thread(w))

\* -------------------------------------------------------------- properties
\* The names of a device table, in table order.
Names(table) == [i \in 1..Len(table) |-> table[i].name]

\* The positions of the device table.
Records == 1..Len(devices)

\* The threads bound to record i that have not made their exit store.
InFlight(i) ==
    {w \in Tids : allthreads[w].dev = i /\ allthreads[w].pc # "finished"}

\* The number of threads launched for record i so far.
Launched(i) == Cardinality({w \in Tids : allthreads[w].dev = i})

\* Main is at a launch the model's bound on allthreads does not let it make.
AtBound ==
    /\ mainpc = "test"
    /\ devices[d].done
    /\ Len(allthreads) >= MaxThreads

\* C1: in every reachable state every record has at most one thread that
\* was launched for it and has not yet made its exit store.
C1_AtMostOneWorker == \A i \in Records : Cardinality(InFlight(i)) <= 1

\* C2: a record's flag is idle when its table is built, and whenever a
\* thread of a record is past its entry store and has not yet returned from
\* its second command, the record's flag reads busy.
C2_BusyWhileInFlight ==
    /\ (mainpc = "scan" /\ allthreads = <<>>)
           => \A i \in Records : devices[i].done
    /\ \A w \in Tids :
           allthreads[w].pc \in {"connect", "connecting", "run", "running"}
               => ~devices[allthreads[w].dev].done

\* Main has taken the step at line 149-152 for the record at d.
TestStep == mainpc = "test" /\ mainpc' # "test"

\* The launch the test is to make: one thread, bound to the record tested
\* and appended to allthreads, when the flag reads idle; none when busy.
TestLaunch ==
    IF devices[d].done
    THEN /\ Len(allthreads') = Len(allthreads) + 1
         /\ SubSeq(allthreads', 1, Len(allthreads)) = allthreads
         /\ allthreads'[Len(allthreads')].dev = d
         /\ allthreads'[Len(allthreads')].pc = "entry"
    ELSE allthreads' = allthreads

\* After the test main is at the next record, or at the sleep after the
\* last one.
TestMovesOn ==
    IF d < Len(devices)
    THEN mainpc' = "print" /\ d' = d + 1
    ELSE mainpc' = "sleep"

\* A scan begins at the first record, or goes to the sleep when the table
\* is empty.
ScanBegins ==
    /\ d' = 1
    /\ mainpc' = IF Len(devices) = 0 THEN "sleep" ELSE "print"

\* The print is of the record main is at, which it tests next.
PrintStays ==
    /\ mainpc' = "test"
    /\ d' = d
    /\ cout'[1] = devices[d].name

\* What every step keeps to: the effects of main's scan, print and test
\* steps, and no launch outside a test step.
MainStepsInOrder ==
    /\ TestStep => (TestLaunch /\ TestMovesOn)
    /\ (mainpc = "scan" /\ mainpc' # "scan") => ScanBegins
    /\ (mainpc = "print" /\ mainpc' # "print") => PrintStays
    /\ Len(allthreads') # Len(allthreads) => TestStep

\* C3: a scan starts at the first record and goes through the table in
\* order, printing each record before testing it; the test launches exactly
\* one thread, bound to the record tested and appended to allthreads, when
\* the flag it reads is idle, and none when it is busy; nothing else
\* launches a thread; and main is never held up by a launched thread: it
\* can always take its next step (unless the launch is past the model's
\* bound).
C3_ScanLaunchesPerIdleRecord ==
    /\ [][MainStepsInOrder]_vars
    /\ [](mainpc \in {"scan", "print", "test", "sleep"}
            => (ENABLED Main \/ AtBound))

\* Main has tested the second of two records with a thread of the first
\* still in its first command: a launch for the second, none waited for.
C3_Witness ==
    /\ Len(devices) = 2
    /\ mainpc = "sleep"
    /\ Len(allthreads) = 2
    /\ allthreads[1].dev = 1 /\ allthreads[1].pc = "connecting"
    /\ allthreads[2].dev = 2 /\ allthreads[2].pc = "entry"

\* The effects of a thread, in the order of systemthread's statements.
Steps == <<"busy", "connect", "run", "idle">>

IsPrefix(a, b) == Len(a) <= Len(b) /\ a = SubSeq(b, 1, Len(a))

\* C4: what a thread has done so far is always a beginning of: store busy,
\* start the connect command, start the instrumentation command, store
\* idle; so the flag is stored busy before any command starts and no
\* command starts twice.  The second command has started only if the first
\* has returned, the idle store is made only if the second has returned,
\* and a thread that has returned has done all four, each once.
C4_WorkerStepsInOrder ==
    \A w \in Tids :
        LET t == allthreads[w]
        IN  /\ IsPrefix(t.log, Steps)
            /\ t.pc = "connecting" => t.log = SubSeq(Steps, 1, 2)
            /\ t.pc = "running" => t.log = SubSeq(Steps, 1, 3)
            /\ Len(t.log) >= 3 => t.rc1 \in ExitStatus
            /\ Len(t.log) >= 4 => t.rc2 \in ExitStatus
            /\ t.pc = "finished" <=> t.log = Steps

\* A thread has gone through all its steps after its connect command
\* failed.
C4_Witness ==
    \E w \in Tids :
        /\ allthreads[w].pc = "finished"
        /\ allthreads[w].rc1 = "failed"
        /\ allthreads[w].log = Steps

\* Thread w takes its exit step.
ExitStep(w) ==
    /\ w \in Tids
    /\ allthreads[w].pc = "exit"
    /\ allthreads'[w].pc # "exit"

\* Thread w comes back from its connect command.
ConnectReturnStep(w) ==
    /\ w \in Tids
    /\ allthreads[w].pc = "connecting"
    /\ allthreads'[w].pc # "connecting"

\* What every step keeps to: an exit step leaves the thread's record idle
\* and the thread returned, and a thread back from the connect command is
\* at the instrumentation command.
ExitStoresIdle ==
    \A w \in 1..MaxThreads :
        /\ ExitStep(w) =>
               /\ devices'[allthreads[w].dev].done
               /\ allthreads'[w].pc = "finished"
        /\ ConnectReturnStep(w) => allthreads'[w].pc = "run"

\* C5: whatever the two commands returned, a thread whose second command
\* has returned can make its exit store, and the store leaves the record's
\* flag idle; a thread whose connect command has returned, with either
\* status, goes on to the instrumentation command; and a thread is never
\* anywhere but at one of its six steps or returned (there is no error
\* state).
C5_ExitStoreUnconditional ==
    /\ [][ExitStoresIdle]_vars
    /\ [](\A w \in Tids :
            /\ allthreads[w].pc \in {"entry", "connect", "connecting", "run",
                                     "running", "exit", "finished"}
            /\ allthreads[w].pc = "run" => ENABLED RunStart(w)
            /\ allthreads[w].pc = "exit" => ENABLED Exit(w)
            /\ allthreads[w].pc = "finished" =>
                   /\ allthreads[w].rc1 \in ExitStatus
                   /\ allthreads[w].rc2 \in ExitStatus)

\* Two threads have returned, one after both commands failed, the other
\* after only the second did, and the flag of their record is idle.
C5_Witness ==
    /\ Len(allthreads) = 2
    /\ allthreads[1].pc = "finished"
    /\ allthreads[1].rc1 = "failed" /\ allthreads[1].rc2 = "failed"
    /\ allthreads[2].pc = "finished"
    /\ allthreads[2].rc1 = "ok" /\ allthreads[2].rc2 = "failed"
    /\ allthreads[1].dev = allthreads[2].dev
    /\ devices[allthreads[1].dev].done

\* The positions a record can have in the table of one of DeviceLists.
RecordIds == UNION {1..Len(get_devices(l)) : l \in DeviceLists}

\* allthreads holds as many threads as the model lets it.
Full == Len(allthreads) >= MaxThreads

\* A thread has been launched for record i and has not taken a step.
Fresh(i) ==
    \E w \in Tids : allthreads[w].dev = i /\ allthreads[w].pc = "entry"

\* Every thread launched for record i has made its exit store.
AllReturned(i) == i \in Records /\ Launched(i) > 0 /\ InFlight(i) = {}

\* C6: with main and every thread scheduled again and again and every
\* command returning, every record has a newly launched thread again and
\* again; and a record does not stay with all its threads returned,
\* whatever their commands returned: that ends only by a new thread being
\* launched for it.  Both up to the model's bound on allthreads (launches
\* for a record go on until allthreads is full).
C6_RelaunchedForEver ==
    \A i \in RecordIds :
        /\ []<>(i \notin Records \/ Fresh(i) \/ Full)
        /\ []<>(~AllReturned(i) \/ Full)

\* A record's first thread has returned after both its commands failed,
\* the record's flag is idle again, and a second thread has been launched
\* for it and has not started.
C6_Witness ==
    /\ Len(devices) = 1
    /\ Len(allthreads) = 2
    /\ allthreads[1].pc = "finished"
    /\ allthreads[1].rc1 = "failed" /\ allthreads[1].rc2 = "failed"
    /\ allthreads[2].pc = "entry"
    /\ devices[1].done

\* C7: started with four or more arguments, main is at one of the steps
\* of its loop for ever and can always take the next one, whatever the
\* launched threads do (unless the launch is past the model's bound); and
\* with main alone scheduled again and again, it begins a scan again and
\* again, also when every launched thread stays in a command for ever.
C7_LoopNeverStops ==
    /\ [](argc >= MinArgc /\ mainpc # "start" =>
            /\ mainpc \in {"scan", "print", "test", "sleep"}
            /\ ENABLED Main \/ AtBound)
    /\ argc >= MinArgc => []<>(mainpc = "scan" \/ AtBound)

\* Main begins a scan after one in which it found the only record busy,
\* the record's thread being inside its instrumentation command.
C7_Witness ==
    /\ mainpc = "scan"
    /\ Len(devices) = 1
    /\ cout = <<devices[1].name, FALSE>>
    /\ Len(allthreads) = 1
    /\ allthreads[1].pc = "running"

\* The flags of a device table, in table order.
Flags(table) == [i \in 1..Len(table) |-> table[i].done]

\* Thread w takes a step.
ThreadStep(w) == w \in Tids /\ allthreads'[w] # allthreads[w]

\* What every step keeps to.  A step of main leaves every flag as it was.
\* A flag changes only in a step of a thread bound to its record, which is
\* then the only flag that changes.  Once the table is built, its names,
\* their number and their order stay.
FrameOfStep ==
    /\ mainpc' # mainpc => Flags(devices') = Flags(devices) \/ mainpc = "start"
    /\ \A i \in Records :
           (i \in 1..Len(devices') /\ devices'[i].done # devices[i].done) =>
               /\ \E w \in Tids : allthreads[w].dev = i /\ ThreadStep(w)
               /\ \A j \in Records \ {i} :
                      j \in 1..Len(devices') /\ devices'[j].done = devices[j].done
    /\ mainpc # "start" => Names(devices') = Names(devices)

\* C8: no step of main stores to a flag; a thread stores only to the flag
\* of the record it is bound to and to no other, the flag of another record
\* of the same name included; and after main's start no step changes a
\* record's name, the number of records or their order.
C8_SharedStateFrame == [][FrameOfStep]_vars

\* Of two records of the same name a thread has made the first busy and
\* the second is still idle.
C8_Witness ==
    /\ Len(devices) = 2
    /\ devices[1].name = devices[2].name
    /\ ~devices[1].done
    /\ devices[2].done
    /\ \E w \in Tids : allthreads[w].dev = 1 /\ allthreads[w].pc = "connecting"

\* C9: started with fewer than four arguments the program goes from its
\* start to the failure exit and stops there, with no device table built,
\* nothing printed and no thread launched (so no command issued); started
\* with four or more it is never at the failure exit.
C9_UsageError ==
    /\ argc < MinArgc =>
           /\ mainpc \in {"start", "exit_failure"}
           /\ devices = <<>>
           /\ cout = <<>>
           /\ allthreads = <<>>
    /\ mainpc = "start" => ENABLED MainStart
    /\ mainpc = "exit_failure" => argc < MinArgc /\ ~ENABLED Next
    /\ argc >= MinArgc => mainpc # "exit_failure"

\* The program has ended at the failure exit, started with two arguments.
C9_Witness ==
    /\ argc = MinArgc - 1
    /\ mainpc = "exit_failure"

\* ------------------------------------------------------- the parser alone
\* The device list of the specification's example.
ExampleList == <<" ", "a", " ", "/", "b", "/", " ", "/", "c", " ">>

\* Every device list of at most MaxLen characters, and the example.
ParserInputs == StringsUpTo(MaxLen) \cup {ExampleList}

\* The program started on any of the parser's inputs.
ParseInit ==
    /\ argc \in ArgcValues
    /\ argv3 \in (IF argc < MinArgc THEN {<<>>} ELSE ParserInputs)
    /\ mainpc = "start"
    /\ devices = <<>>
    /\ d = 1
    /\ cout = <<>>
    /\ allthreads = <<>>
    /\ sleep_time \in SleepTimesFor(argc)
    /\ usec = NoCall

\* The program up to the device table: main's start is the only step.
ParseNext == MainStart

ParseSpec == ParseInit /\ [][ParseNext]_vars

\* What the device list is to parse to, stated on positions: the cuts are
\* the delimiters and the two ends, a segment lies between two neighbouring
\* cuts, and a trimmed segment runs from its first to its last character
\* that is no whitespace.
Whitespace == {" ", "\t", "\n", "\r", "\f"}

Cuts(s) == {0, Len(s) + 1} \cup {i \in 1..Len(s) : s[i] = "/"}

Pieces(s) ==
    {p \in Cuts(s) \X Cuts(s) :
        /\ p[1] < p[2]
        /\ ~\E c \in Cuts(s) : p[1] < c /\ c < p[2]}

Trimmed(s, p) ==
    LET ink == {i \in (p[1] + 1)..(p[2] - 1) : s[i] \notin Whitespace}
    IN  IF ink = {} THEN <<>>
        ELSE LET lo == CHOOSE i \in ink : \A j \in ink : i <= j
                 hi == CHOOSE i \in ink : \A j \in ink : j <= i
             IN  SubSeq(s, lo, hi)

RECURSIVE InOrder(_, _)
InOrder(s, ps) ==
    IF ps = {} THEN <<>>
    ELSE LET p == CHOOSE q \in ps : \A r \in ps : q[1] <= r[1]
         IN  (IF Trimmed(s, p) = <<>> THEN <<>> ELSE <<Trimmed(s, p)>>)
                 \o InOrder(s, ps \ {p})

Expected(s) == InOrder(s, Pieces(s))

\* C10: once main has built the device table, the names of its records are
\* the segments of argv[3] between the '/' characters, each without its
\* leading and trailing whitespace (inner whitespace kept), the empty ones
\* left out, in their order in argv[3]; the example list gives a, b, c and
\* "/" gives no record.
C10_ParserSplitsTrimsDrops ==
    /\ mainpc = "scan" => Names(devices) = Expected(argv3)
    /\ (mainpc = "scan" /\ argv3 = ExampleList)
           => Names(devices) = << <<"a">>, <<"b">>, <<"c">> >>
    /\ (mainpc = "scan" /\ argv3 = <<"/">>) => devices = <<>>

\* The example list has been parsed into its three records.
C10_Witness ==
    /\ mainpc = "scan"
    /\ argv3 = ExampleList
    /\ Len(devices) = 3

\* ------------------------------------------------------- the device table
\* The threads bound to record i that have made their entry store and not
\* yet their exit store.
Storing(i) ==
    {w \in Tids : /\ allthreads[w].dev = i
                  /\ allthreads[w].pc \in {"connect", "connecting", "run",
                                           "running", "exit"}}

\* What the table is once main has built it: as many records as argv[3] has
\* segments that are not empty when trimmed, a record of its own for each
\* of two segments of the same name; a record no thread was launched for is
\* idle; and a record is busy only by the entry store of a thread bound to
\* that very record.
TableOfSegments ==
    mainpc \notin {"start", "exit_failure"} =>
        /\ Len(devices) = Len(Expected(argv3))
        /\ argv3 = <<"a", "/", "a">> =>
               Names(devices) = << <<"a">>, <<"a">> >>
        /\ \A i \in Records : Launched(i) = 0 => devices[i].done
        /\ \A i \in Records : ~devices[i].done => Storing(i) # {}

\* What every step keeps to: a step of a thread leaves the flag of every
\* record it is not bound to as it was.
OtherFlagsKept ==
    \A w \in Tids :
        ThreadStep(w) =>
            \A j \in Records \ {allthreads[w].dev} :
                devices'[j].done = devices[j].done

\* C11: the table has one record per segment of argv[3] that is not empty
\* when trimmed, "a/a" giving two records named a; every record is idle
\* when the table is built and until a thread is launched for it; and the
\* flags of two records, of the same name or not, are independent: a
\* thread's store changes the flag of its own record only, and a record is
\* busy only through a thread of its own.
C11_OneRecordPerSegment ==
    /\ []TableOfSegments
    /\ [][OtherFlagsKept]_vars

\* Of two records named a, the thread of the second is inside its
\* instrumentation command with its record busy, while the first record,
\* whose thread has returned, is idle.
C11_Witness ==
    /\ argv3 = <<"a", "/", "a">>
    /\ Len(devices) = 2
    /\ devices[1].done
    /\ ~devices[2].done
    /\ Len(allthreads) = 2
    /\ allthreads[1].dev = 1 /\ allthreads[1].pc = "finished"
    /\ allthreads[2].dev = 2 /\ allthreads[2].pc = "running"

\* --------------------------------------------------- the print and the test
\* What the test step is to keep to: it launches a thread exactly when the
\* flag value last printed, which is that of the record tested, is idle.
LaunchIffPrintedIdle ==
    TestStep =>
        /\ cout[1] = devices[d].name
        /\ Len(allthreads') = Len(allthreads) + 1 <=> cout[2]

\* C12: in every scan and for every record, the test launches a thread for
\* the record if and only if the flag value printed for it just before is
\* idle: the value printed and the value that decides the launch are the
\* same.
C12_LaunchIffPrintedIdle == [][LaunchIffPrintedIdle]_vars

\* ------------------------------------------------- commands in progress
\* The threads inside system(): their command has started and not returned.
Invoking == {w \in Tids : allthreads[w].pc \in {"connecting", "running"}}

\* The command thread w is inside: built at lines 101-104 from the name of
\* the record the thread is bound to, which no step changes.
Command(w) ==
    IF allthreads[w].pc = "connecting"
    THEN connect_cmd(devices[allthreads[w].dev])
    ELSE run_server(devices[allthreads[w].dev])

\* The device a command is run against.
Target(cmd) == cmd[2]

\* Two commands in progress against one device.
SameTarget(v, w) ==
    /\ v \in Invoking /\ w \in Invoking
    /\ v # w
    /\ Target(Command(v)) = Target(Command(w))

\* No two records of the table have the same name.
NamesDistinct ==
    \A i, j \in Records : i # j => devices[i].name # devices[j].name

\* C13 as stated: two commands are in progress against the same device
\* name only when their threads are two threads of one record; so in a
\* state where no record has two threads in flight, no two commands in
\* progress have the same target.
C13_SameNameOnlyByRace ==
    \A v, w \in Tids :
        SameTarget(v, w) => allthreads[v].dev = allthreads[w].dev

\* C13 amended: two commands are in progress against the same device name
\* only when their threads are two threads of one record or threads of two
\* records that have the same name in the table (the same device given
\* twice in argv[3]); so when the names of the table are distinct and no
\* record has two threads in flight, no two commands in progress have the
\* same target.
C13_SameNameByRaceOrDuplicate ==
    /\ \A v, w \in Tids :
           SameTarget(v, w) =>
               \/ allthreads[v].dev = allthreads[w].dev
               \/ devices[allthreads[v].dev].name
                      = devices[allthreads[w].dev].name
    /\ (NamesDistinct /\ C1_AtMostOneWorker) =>
           \A v, w \in Tids : ~SameTarget(v, w)

\* Two records named a have a thread each, no record has two, and both
\* threads are inside a command against a.
C13_Witness ==
    /\ Len(devices) = 2
    /\ devices[1].name = devices[2].name
    /\ C1_AtMostOneWorker
    /\ Len(allthreads) = 2
    /\ allthreads[1].dev = 1 /\ allthreads[1].pc = "running"
    /\ allthreads[2].dev = 2 /\ allthreads[2].pc = "connecting"
    /\ SameTarget(1, 2)

\* ------------------------------------------------------ no flag stays busy
\* C14: in every reachable state a record none of whose threads is in
\* flight (each thread launched for it has made its exit store, or none was
\* launched) has its flag idle.
C14_NoStuckBusy ==
    \A i \in Records : InFlight(i) = {} => devices[i].done

\* Two threads were launched for the only record, one on top of the other,
\* both have made their exit store, and main is about to print the record.
C14_Witness ==
    /\ Len(devices) = 1
    /\ Launched(1) = 2
    /\ InFlight(1) = {}
    /\ devices[1].done
    /\ mainpc = "print"

\* ------------------------------------------- scans with the threads returned
\* A pass of while (1) that begins when every thread launched so far has
\* returned: the commands take less than the sleep.
QuietScan ==
    /\ \A w \in Tids : allthreads[w].pc = "finished"
    /\ MainScan

QuietNext ==
    \/ MainStart
    \/ QuietScan
    \/ MainPrint
    \/ MainTest
    \/ MainSleep
    \/ \E w \in Tids : Entry(w)
    \/ \E w \in Tids : ConnectStart(w)
    \/ \E w \in Tids : ConnectReturn(w)
    \/ \E w \in Tids : RunStart(w)
    \/ \E w \in Tids : RunReturn(w)
    \/ \E w \in Tids : Exit(w)

\* The program with every scan begun after the threads of the scans before
\* it have returned; within a scan the threads run as they like.
QuietSpec == Init /\ [][QuietNext]_vars

\* Every flag is idle and no thread is in flight.
Quiet == \A i \in Records : devices[i].done /\ InFlight(i) = {}

\* The launches made so far, scan by scan: between scans every record has
\* had the same number of threads, one per scan; within a scan the records
\* before the one main is at have had one more than the others.
OnePerRecordPerScan ==
    /\ mainpc \in {"scan", "sleep"} =>
           \A i, j \in Records : Launched(i) = Launched(j)
    /\ mainpc \in {"print", "test"} =>
           \A i \in Records :
               Launched(i) = Launched(d) + (IF i < d THEN 1 ELSE 0)

\* What every step keeps to: a scan begins with every flag idle and no
\* thread in flight, and the test of a record launches a thread.
TestLaunches ==
    /\ (mainpc = "scan" /\ mainpc' # "scan") => Quiet
    /\ TestStep => Len(allthreads') = Len(allthreads) + 1

\* C15: when every scan begins after the threads launched before it have
\* returned, every scan begins with every flag idle and no thread in
\* flight, and launches exactly one thread per record: each test step
\* launches one, so that after every scan every record has had as many
\* threads as there were scans (scan after scan, up to the model's bound on
\* allthreads).
C15_ScanLaunchesOnePerRecord ==
    /\ []OnePerRecordPerScan
    /\ [][TestLaunches]_vars

\* The second scan of a table of one record has launched the record's
\* second thread, the first having returned before the scan began.
C15_Witness ==
    /\ Len(devices) = 1
    /\ mainpc = "sleep"
    /\ Len(allthreads) = 2
    /\ allthreads[1].pc = "finished"
    /\ allthreads[2].pc # "finished"

\* ---------------------------------------------------- the handles of main
\* What every step keeps to: every handle stays where it is in allthreads,
\* bound to the record it was launched for, whether its thread has returned
\* or not; and allthreads grows only in a test step that finds the flag
\* idle, by one handle.
HandlesKept ==
    /\ Len(allthreads') >= Len(allthreads)
    /\ \A w \in Tids :
           /\ w <= Len(allthreads')
           /\ allthreads'[w].dev = allthreads[w].dev
    /\ Len(allthreads') # Len(allthreads) =>
           /\ TestStep
           /\ devices[d].done
           /\ Len(allthreads') = Len(allthreads) + 1

\* C16: no step removes a handle from allthreads or takes one of a returned
\* thread out; the number of handles never goes down and goes up by exactly
\* one at each launch; and with a table that is not empty there comes a
\* state with as many handles as the model's bound lets allthreads hold, so,
\* the number going up one by one, a state with more handles than any
\* number below the bound (main and threads scheduled again and again,
\* commands returning).
C16_HandlesOnlyGrow ==
    /\ [][HandlesKept]_vars
    /\ Len(get_devices(argv3)) > 0 => <>(Len(allthreads) >= MaxThreads)

\* allthreads is as long as the model lets it be, for a table of one
\* record, and the handle of the first thread, which has returned, is still
\* in it.
C16_Witness ==
    /\ Len(devices) = 1
    /\ Len(allthreads) = MaxThreads
    /\ allthreads[1].pc = "finished"
    /\ allthreads[MaxThreads].pc = "connect"

\* ------------------------------------------------------- the empty table
\* The delimiter and the whitespace characters of Alphabet.
Blank == {c \in Alphabet : c = "/" \/ isspace(c)}

\* Every device list of at most MaxLen characters that has no name in it:
\* the empty one and those of delimiters and whitespace only.
BlankLists == UNION {[1..k -> Blank] : k \in 0..MaxLen}

\* The program started with three arguments on a list without a name, or
\* on a list of one.
ZeroInit ==
    /\ argc = MinArgc
    /\ argv3 \in BlankLists \cup {<<"a">>}
    /\ mainpc = "start"
    /\ devices = <<>>
    /\ d = 1
    /\ cout = <<>>
    /\ allthreads = <<>>
    /\ sleep_time \in SleepTimesFor(argc)
    /\ usec = NoCall

\* Main is scheduled again and again; nothing is assumed of the threads.
ZeroSpec == ZeroInit /\ [][Next]_vars /\ WF_vars(Main)

\* The start is on a list that has no segment that is not empty when
\* trimmed.
NoSegment == argc >= MinArgc /\ Expected(argv3) = <<>>

\* C17: started on a device list without a name (empty, or delimiters and
\* whitespace only) the table has no record, main goes round its loop for
\* ever, beginning a scan and sleeping again and again, and in every state no
\* thread has been launched (so no command issued) and no device line
\* written.
C17_EmptyTableIdles ==
    /\ [](NoSegment =>
            /\ devices = <<>>
            /\ allthreads = <<>>
            /\ cout = <<>>
            /\ mainpc \in {"start", "scan", "sleep"}
            /\ ENABLED Main)
    /\ NoSegment => []<>(mainpc = "scan")
    /\ NoSegment => []<>(mainpc = "sleep")

\* Main sleeps after a scan of the empty table it built from a list of a
\* blank, a delimiter and a tab.
C17_Witness ==
    /\ argv3 = <<" ", "/", "\t">>
    /\ devices = <<>>
    /\ mainpc = "sleep"
    /\ allthreads = <<>>
    /\ cout = <<>>

\* ------------------------------------------------------- the sleep alone
\* The sleep times tried: the small ones, the example's, the largest whose
\* product by 1000 is a value of int and the one after it, the largest
\* whose product is below 2^32 and the one after it, and INT_MAX.
SleepTimes ==
    (0..MaxInterval) \cup {ExampleInterval,
                           IntMax \div 1000, IntMax \div 1000 + 1,
                           IntMax \div 500, IntMax \div 500 + 1,
                           IntMax}

\* The program started with three arguments on any of the sleep times and
\* a device list without a name.
SleepInit ==
    /\ argc = MinArgc
    /\ argv3 = <<"/">>
    /\ mainpc = "start"
    /\ devices = <<>>
    /\ d = 1
    /\ cout = <<>>
    /\ allthreads = <<>>
    /\ sleep_time \in SleepTimes
    /\ usec = NoCall

\* Main's loop over the empty table: scan and sleep.
SleepNext == MainStart \/ MainScan \/ MainSleep

SleepSpec == SleepInit /\ [][SleepNext]_vars

\* A number of three 16-bit digits read in thousands and units
\* (2^32 = 4294967 * 1000 + 296 and 2^16 = 65 * 1000 + 536).
UnitsRaw(x) == x[1] * 296 + x[2] * 536 + x[3]

Thousands(x) == x[1] * 4294967 + x[2] * 65 + UnitsRaw(x) \div 1000

Units(x) == UnitsRaw(x) % 1000

\* A request of x microseconds is not shorter than one of y.
NotShorter(x, y) ==
    \/ Thousands(x) > Thousands(y)
    \/ Thousands(x) = Thousands(y) /\ Units(x) >= Units(y)

\* C18: for every sleep time n from 0 to INT_MAX, whenever sleepcp has been
\* called the call asked usleep for exactly n * 1000 microseconds (the
\* multiplication in int does not wrap); the example's 5000 asks for
\* 5,000,000; and a sleep time that is larger never asks for less.
C18_RequestIsIntervalTimes1000 ==
    /\ usec.kind # "none" =>
           /\ usec.kind = "usleep"
           /\ Thousands(usec.arg) = sleep_time
           /\ Units(usec.arg) = 0
    /\ (usec.kind # "none" /\ sleep_time = ExampleInterval) =>
           Thousands(usec.arg) = 5000 /\ Units(usec.arg) = 0
    /\ usec.kind = "usleep" =>
           \A m \in SleepTimes :
               m >= sleep_time =>
                   \A r \in sleepcp(m) :
                       r.kind = "usleep" /\ NotShorter(r.arg, usec.arg)

====
